---------------------------- MODULE Spec2Model ----------------------------
(***************************************************************************)
(* A model of cleancss.Parser (src/cleancss/__init__.py): the conversion   *)
(* of indentation-structured CleanCSS source lines to flat CSS text.       *)
(*                                                                         *)
(* Text is modelled as a sequence of one-character strings, so that the    *)
(* regular expressions, the comment stripping, the formatting and the      *)
(* selector flattening are computed character by character as the code     *)
(* computes them.                                                          *)
(***************************************************************************)
EXTENDS Integers, Sequences, FiniteSets, TLC

VARIABLES
    callbacks,          \* Parser.__callbacks: the registered property callbacks
    pos,                \* lines the source stream has yielded so far
    line,               \* the line the stream yielded last (the loop variable)
    pc,                 \* "idle" | "parse" | "render" | "done" | "error" | "call" | "returned"
    lineno,             \* toCss locals (lines 74-82) ...
    level,
    indenter,
    selectorsChanged,
    rules,
    comment,
    cur_rule_tree,
    rule_prefixes,
    new_selectors,      \* the last value returned by flattenSelectors
    output,             \* the rendered chunks (line 170)
    media_query,        \* <<>> is None, <<q>> is the open media query q
    ri,                 \* the position of the rendering loop in rules
    result,             \* <<>> until toCss returns, then <<text>>
    err,                \* the exception raised, if any
    seen,               \* history: the kinds of the statements read so far
    openedAt,           \* history: the levels at which the stack entries were opened
    sourcestream,       \* Parser.sourcestream where its lines are given beforehand
    calls               \* history: the number of toCss calls so far

vars == <<callbacks, pos, line, pc, lineno, level, indenter, selectorsChanged, rules,
          comment, cur_rule_tree, rule_prefixes, new_selectors,
          output, media_query, ri, result, err, seen, openedAt, sourcestream, calls>>

---------------------------------------------------------------------------
(* Bounds of the model.                                                    *)

MaxLines == 4          \* lines a source stream yields
MaxCallbacks == 2      \* callbacks registered on one Parser
MaxDepth == 3          \* selector groups of a flattened stack
MaxGroup == 2          \* selectors of one group of a flattened stack
MaxRules == 3          \* rules of a rendered rule buffer
MaxStream == 3         \* lines of a stream given beforehand
MaxCalls == 2          \* toCss calls one after another

---------------------------------------------------------------------------
(* Text helpers (Python str / list operations).                            *)

Min(S) == CHOOSE x \in S : \A y \in S : x <= y
Max(S) == CHOOSE x \in S : \A y \in S : x >= y

\* \s of the re module, str.strip() without arguments
IsSpace(c) == c \in {" ", "\t", "\n"}

\* str.find: the first index (1-based) of sub in s, 0 when absent
Find(s, sub) ==
    LET occ == {i \in 1..(Len(s) - Len(sub) + 1) : SubSeq(s, i, i + Len(sub) - 1) = sub}
    IN IF occ = {} THEN 0 ELSE Min(occ)

\* sub in s
Contains(s, sub) == Find(s, sub) # 0

\* s.startswith(p)
StartsWith(s, p) == Len(s) >= Len(p) /\ SubSeq(s, 1, Len(p)) = p

\* the index of the first non-space character, Len(s)+1 when there is none
FirstNonSpace(s) ==
    LET ns == {i \in 1..Len(s) : ~IsSpace(s[i])}
    IN IF ns = {} THEN Len(s) + 1 ELSE Min(ns)

\* s.lstrip()
LStrip(s) == SubSeq(s, FirstNonSpace(s), Len(s))

\* s.strip()
Strip(s) ==
    LET ns == {i \in 1..Len(s) : ~IsSpace(s[i])}
    IN IF ns = {} THEN <<>> ELSE SubSeq(s, Min(ns), Max(ns))

\* s.split(sep) for a one-character separator
RECURSIVE Split(_, _)
Split(s, sep) ==
    LET i == Find(s, <<sep>>)
    IN IF i = 0 THEN <<s>>
       ELSE <<SubSeq(s, 1, i - 1)>> \o Split(SubSeq(s, i + 1, Len(s)), sep)

\* sep.join(parts)
RECURSIVE Join(_, _)
Join(sep, parts) ==
    IF Len(parts) = 0 THEN <<>>
    ELSE IF Len(parts) = 1 THEN parts[1]
    ELSE parts[1] \o sep \o Join(sep, Tail(parts))

\* ''.join(parts)
Concat(parts) == Join(<<>>, parts)

---------------------------------------------------------------------------
(* The regular expressions of the Parser class (lines 42-48).              *)

multi_comment_start == <<"/", "*">>
multi_comment_end == <<"*", "/">>

\* _r_comment.sub('', s): /\*.*?\*/|(?<!:)//.*$ removed, scanning s from i
RECURSIVE r_comment_sub(_, _)
r_comment_sub(s, i) ==
    IF i > Len(s) THEN <<>>
    ELSE LET two == IF i < Len(s) THEN <<s[i], s[i + 1]>> ELSE <<>>
             close == Find(SubSeq(s, i + 2, Len(s)), multi_comment_end)
         IN IF two = <<"/", "*">> /\ close # 0
               THEN r_comment_sub(s, i + 2 + close + 1)
            ELSE IF two = <<"/", "/">> /\ (i = 1 \/ s[i - 1] # ":")
               THEN <<>>
            ELSE <<s[i]>> \o r_comment_sub(s, i + 1)

\* _r_indentation.match(s).group(0): ^\s*
r_indentation(s) == SubSeq(s, 1, FirstNonSpace(s) - 1)

NoMatch == [ok |-> FALSE, g1 |-> <<>>, g2 |-> <<>>]

\* _r_selector.match(s): ^(.+)\s*:$  (the greedy group takes all but the last colon)
r_selector(s) ==
    IF Len(s) >= 2 /\ s[Len(s)] = ":"
    THEN [ok |-> TRUE, g1 |-> SubSeq(s, 1, Len(s) - 1), g2 |-> <<>>]
    ELSE NoMatch

\* _r_property_prefix.match(s): ^([^:>\s]+)->$
r_property_prefix(s) ==
    IF /\ Len(s) >= 3
       /\ SubSeq(s, Len(s) - 1, Len(s)) = <<"-", ">">>
       /\ \A i \in 1..(Len(s) - 2) : s[i] \notin {":", ">"} /\ ~IsSpace(s[i])
    THEN [ok |-> TRUE, g1 |-> SubSeq(s, 1, Len(s) - 2), g2 |-> <<>>]
    ELSE NoMatch

\* _r_definition.match(s): ^([^\s]+)\s*:\s*(.+)$ on a stripped line.  The first
\* group is the longest prefix k of the leading run of non-space characters that
\* is followed by optional spaces, a colon and a non-empty rest.
r_definition(s) ==
    LET sp == {i \in 1..Len(s) : IsSpace(s[i])}
        w == IF sp = {} THEN Len(s) ELSE Min(sp) - 1
        colonAfter(k) ==
            IF k < w THEN k + 1
            ELSE k + FirstNonSpace(SubSeq(s, k + 1, Len(s)))
        fits(k) == LET c == colonAfter(k)
                   IN c < Len(s) /\ s[c] = ":"
        ks == {k \in 1..w : fits(k)}
    IN IF ks = {} THEN NoMatch
       ELSE LET k == Max(ks)
            IN [ok |-> TRUE,
                g1 |-> SubSeq(s, 1, k),
                g2 |-> LStrip(SubSeq(s, colonAfter(k) + 1, Len(s)))]


---------------------------------------------------------------------------
(* Parser.flattenSelectors (lines 55-71).  The result is [ok, val]: ok is  *)
(* FALSE when the call raises IndexError (selectorTree[0] on an empty      *)
(* stack at line 57, tail[0] on an empty tail at line 64).                 *)

IndexError(at) == [ok |-> FALSE, val |-> <<>>, at |-> at]

\* lines 64-68: one base selector combined with one tail
Combine(b, tail) ==
    IF tail[1] = "&" THEN b \o Tail(tail) ELSE b \o <<" ">> \o tail

\* lines 63-68: the inner loop, over the tails
RECURSIVE ForTails(_, _)
ForTails(b, tails) ==
    IF tails = <<>> THEN <<>>
    ELSE <<Combine(b, Head(tails))>> \o ForTails(b, Tail(tails))

\* lines 61-70: the outer loop, over the base selectors
RECURSIVE ForBase(_, _)
ForBase(base, tails) ==
    IF base = <<>> THEN <<>>
    ELSE ForTails(Head(base), tails) \o ForBase(Tail(base), tails)

\* a faulty variant of flattenSelectors: the tails are the second group alone,
\* the groups below it are not flattened into them
flattenSelectorsShallow(selectorTree) ==
    IF Len(selectorTree) = 0 THEN IndexError(57)
    ELSE LET base == selectorTree[1]
             tails == selectorTree[2]
         IN IF Len(selectorTree) = 1 THEN [ok |-> TRUE, val |-> base, at |-> 0]
            ELSE IF base # <<>> /\ \E j \in 1..Len(tails) : tails[j] = <<>>
                 THEN IndexError(64)
            ELSE [ok |-> TRUE, val |-> ForBase(base, tails), at |-> 0]

RECURSIVE flattenSelectors(_)
flattenSelectors(selectorTree) ==
    IF Len(selectorTree) = 0 THEN IndexError(57)
    ELSE LET base == selectorTree[1]
             tails == flattenSelectors(Tail(selectorTree))
         IN IF Len(selectorTree) = 1 THEN [ok |-> TRUE, val |-> base, at |-> 0]
            ELSE IF ~tails.ok THEN tails
            ELSE IF base # <<>> /\ \E j \in 1..Len(tails.val) : tails.val[j] = <<>>
                 THEN IndexError(64)
            ELSE [ok |-> TRUE, val |-> ForBase(base, tails.val), at |-> 0]

---------------------------------------------------------------------------
(* Property callbacks: the callables a caller registers.  "variant" is the *)
(* callback of test_02_callback, "noop" the one of the docstring of        *)
(* registerPropertyCallback; "none" returns no pair and "sides" two.       *)

Callbacks == {"variant", "none", "sides"}

s_variant == <<"-", "v", "a", "r", "i", "a", "n", "t">>
s_top == <<"-", "t", "o", "p">>
s_bottom == <<"-", "b", "o", "t", "t", "o", "m">>

\* callback(prop, value): a sequence of <<prop, value>> pairs
Call(cb, prop, value) ==
    CASE cb = "variant" -> << <<prop \o s_variant, value>> >>
      [] cb = "noop"    -> << <<prop, value>> >>
      [] cb = "none"    -> <<>>
      [] cb = "sides"   -> << <<prop \o s_top, value>>, <<prop \o s_bottom, value>> >>

\* a faulty variant of ExtendAll: every callback is fed the pairs of the one before it
RECURSIVE ChainFrom(_, _)
ChainFrom(cbs, pairs) ==
    IF cbs = <<>> THEN pairs
    ELSE ChainFrom(Tail(cbs),
                   Concat([i \in 1..Len(pairs) |->
                              Call(Head(cbs), pairs[i][1], pairs[i][2])]))

ExtendAllChained(cbs, prop, value) == ChainFrom(cbs, << <<prop, value>> >>)

\* lines 159-160: properties.extend(callback(match.group(1), match.group(2)))
RECURSIVE ExtendAll(_, _, _)
ExtendAll(cbs, prop, value) ==
    IF cbs = <<>> THEN <<>>
    ELSE Call(Head(cbs), prop, value) \o ExtendAll(Tail(cbs), prop, value)

\* a faulty variant of ApplyCallbacks: the raw pair is kept beside the callbacks' pairs
ApplyCallbacksKeepRaw(cbs, prop, value) ==
    << <<prop, value>> >> \o ExtendAll(cbs, prop, value)

\* lines 156-162
ApplyCallbacks(cbs, prop, value) ==
    IF Len(cbs) > 0 THEN ExtendAll(cbs, prop, value)
    ELSE << <<prop, value>> >>

\* a faulty variant of Prefixes: no dash between the prefix and the property name
PrefixesNoTrailingDash(prefixStack) == Join(<<"-">>, prefixStack)

\* lines 151-154
Prefixes(prefixStack) ==
    IF Len(prefixStack) > 0 THEN Join(<<"-">>, prefixStack) \o <<"-">> ELSE <<>>

\* line 165: "%s: %s;" % (prefixes + prop, value)
Declaration(prefixes, prop, value) ==
    prefixes \o prop \o <<":", " ">> \o value \o <<";">>

\* lines 164-165: the declarations of a list of pairs
Declarations(prefixes, properties) ==
    [i \in 1..Len(properties) |->
        Declaration(prefixes, properties[i][1], properties[i][2])]


---------------------------------------------------------------------------
(* Parser.toCss, the parsing loop (lines 73-168).                          *)

s_media == <<"@", "m", "e", "d", "i", "a">>

NoError == [type |-> "none", lineno |-> 0, message |-> "", at |-> 0]

\* raise ParserError(lineno, message), raised at source line `at`
ParserError(n, message, at) ==
    [type |-> "ParserError", lineno |-> n, message |-> message, at |-> at]

\* the IndexError that escapes flattenSelectors, raised at source line `at`
EscapedIndexError(at) ==
    [type |-> "IndexError", lineno |-> 0, message |-> "", at |-> at]

\* a faulty variant of Normalize: a line inside a block comment ends the comment
NormalizeForgetComment(raw, inComment) ==
    IF inComment /\ ~Contains(raw, multi_comment_end)
    THEN [skip |-> TRUE, line |-> <<>>, comment |-> FALSE]
    ELSE LET l1 == IF inComment
                   THEN SubSeq(raw, Find(raw, multi_comment_end) + Len(multi_comment_end),
                               Len(raw))
                   ELSE raw
             l2 == r_comment_sub(l1, 1)
             start == Find(l2, multi_comment_start)
             l3 == IF start # 0 THEN SubSeq(l2, 1, start - 1) ELSE l2
         IN [skip |-> Strip(l3) = <<>>, line |-> l3, comment |-> start # 0]

\* lines 86-100: the line with its comments removed, whether it is skipped
\* (continue at line 91 or 100), and the block-comment flag after it
Normalize(raw, inComment) ==
    IF inComment /\ ~Contains(raw, multi_comment_end)
    THEN [skip |-> TRUE, line |-> <<>>, comment |-> TRUE]
    ELSE LET l1 == IF inComment
                   THEN SubSeq(raw, Find(raw, multi_comment_end) + Len(multi_comment_end),
                               Len(raw))
                   ELSE raw
             l2 == r_comment_sub(l1, 1)
             start == Find(l2, multi_comment_start)
             l3 == IF start # 0 THEN SubSeq(l2, 1, start - 1) ELSE l2
         IN [skip |-> Strip(l3) = <<>>, line |-> l3, comment |-> start # 0]

\* a faulty variant of Indenter: every indented line sets the unit again
IndenterLatest(unit, ind) ==
    IF Len(ind) > 0 THEN Len(ind) ELSE unit

\* lines 103-104: the indentation unit after a line with leading whitespace ind
Indenter(unit, ind) ==
    IF unit = 0 /\ Len(ind) > 0 THEN Len(ind) ELSE unit

\* lines 109-111
NewLevel(unit, ind) ==
    IF unit > 0 THEN Len(ind) \div unit ELSE 0

\* a faulty variant of LevelJump: a jump of two levels is let through
LevelJumpOfThree(newlevel, oldlevel) == newlevel - oldlevel > 2

\* line 114
LevelJump(newlevel, oldlevel) == newlevel - oldlevel > 1

\* a faulty variant of PopPrefixes: the prefixes are popped by their own depth
RECURSIVE PopPrefixesOwnDepth(_, _, _)
PopPrefixesOwnDepth(tree, prefixStack, newlevel) ==
    IF Len(prefixStack) > newlevel
    THEN PopPrefixesOwnDepth(tree, SubSeq(prefixStack, 1, Len(prefixStack) - 1), newlevel)
    ELSE prefixStack

\* lines 118-119
RECURSIVE PopPrefixes(_, _, _)
PopPrefixes(tree, prefixStack, newlevel) ==
    IF Len(tree) + Len(prefixStack) > newlevel /\ Len(prefixStack) > 0
    THEN PopPrefixes(tree, SubSeq(prefixStack, 1, Len(prefixStack) - 1), newlevel)
    ELSE prefixStack

\* a faulty variant of PopTree: a dedent closes every selector group
PopTreeAll(tree, newlevel) ==
    IF Len(tree) > newlevel THEN <<>> ELSE tree

\* lines 120-121
RECURSIVE PopTree(_, _)
PopTree(tree, newlevel) ==
    IF Len(tree) > newlevel
    THEN PopTree(SubSeq(tree, 1, Len(tree) - 1), newlevel)
    ELSE tree

\* lines 126-128: the selector group of a header
SelectorGroup(g1) ==
    LET parts == Split(g1, ",")
    IN [i \in 1..Len(parts) |-> Strip(parts[i])]

\* lines 124, 133, 138, 168: the statement a stripped line is
Kind(s) ==
    IF r_selector(s).ok THEN "selector"
    ELSE IF r_property_prefix(s).ok THEN "prefix"
    ELSE IF r_definition(s).ok THEN "definition"
    ELSE "unexpected"

\* lines 143-148: the selectors of a new rule; ok is FALSE when flattenSelectors
\* raises.  A rule's selectors are [tuple, media, text]: a media pair
\* (media, text) when tuple, else the string text.
RuleSelectors(tree) ==
    IF StartsWith(tree[1][1], s_media)
    THEN LET f == flattenSelectors(Tail(tree))
         IN [ok |-> f.ok, flat |-> f.val, at |-> f.at,
             selectors |-> [tuple |-> TRUE, media |-> tree[1][1],
                            text |-> Join(<<",", "\n">>, f.val)]]
    ELSE LET f == flattenSelectors(tree)
         IN [ok |-> f.ok, flat |-> f.val, at |-> f.at,
             selectors |-> [tuple |-> FALSE, media |-> <<>>,
                            text |-> Join(<<",", "\n">>, f.val)]]

\* line 149: rules.append((selectors, []))
OpenRule(rs, selectors) ==
    Append(rs, [selectors |-> selectors, definitions |-> <<>>])

\* a faulty variant of AppendDeclarations: the declarations are put first
AppendDeclarationsFirst(rs, decls) ==
    [rs EXCEPT ![Len(rs)].definitions = decls \o @]

\* lines 164-165: rules[-1][1].append(...) for every declaration
AppendDeclarations(rs, decls) ==
    [rs EXCEPT ![Len(rs)].definitions = @ \o decls]

\* the locals of toCss that the loop carries from line to line
Locals ==
    [lineno |-> lineno, level |-> level, indenter |-> indenter,
     selectorsChanged |-> selectorsChanged, rules |-> rules, comment |-> comment,
     cur_rule_tree |-> cur_rule_tree, rule_prefixes |-> rule_prefixes,
     new_selectors |-> new_selectors, raised |-> NoError]

\* a faulty variant of InitialLocals: the indentation unit of the conversion
\* before is kept
InitialLocalsKeepUnit ==
    [lineno |-> 0, level |-> 0, indenter |-> indenter, selectorsChanged |-> FALSE,
     rules |-> <<>>, comment |-> FALSE, cur_rule_tree |-> <<>>,
     rule_prefixes |-> <<>>, new_selectors |-> <<>>, raised |-> NoError]

\* lines 74-82
InitialLocals ==
    [lineno |-> 0, level |-> 0, indenter |-> 0, selectorsChanged |-> FALSE,
     rules |-> <<>>, comment |-> FALSE, cur_rule_tree |-> <<>>,
     rule_prefixes |-> <<>>, new_selectors |-> <<>>, raised |-> NoError]

\* lines 138-166: a property definition, after the pop to the new level
Definition(loc, cbs, m) ==
    IF Len(loc.cur_rule_tree) = 0
    THEN [loc EXCEPT !.raised =
              ParserError(loc.lineno, "Selector expected, found definition", 141)]
    ELSE LET sel == RuleSelectors(loc.cur_rule_tree)
             opened == IF loc.selectorsChanged
                       THEN OpenRule(loc.rules, sel.selectors)
                       ELSE loc.rules
             decls == Declarations(Prefixes(loc.rule_prefixes),
                                   ApplyCallbacks(cbs, m.g1, m.g2))
         IN IF loc.selectorsChanged /\ ~sel.ok
            THEN [loc EXCEPT !.raised = EscapedIndexError(sel.at)]
            ELSE [loc EXCEPT
                    !.new_selectors = IF loc.selectorsChanged THEN sel.flat ELSE @,
                    !.selectorsChanged = FALSE,
                    !.rules = AppendDeclarations(opened, decls)]

\* a faulty variant of SelectorHeader: the rule is opened at the header
SelectorHeaderEager(loc, g1) ==
    LET tree == Append(loc.cur_rule_tree, SelectorGroup(g1))
    IN [loc EXCEPT !.cur_rule_tree = tree,
                   !.selectorsChanged = FALSE,
                   !.rules = OpenRule(@, RuleSelectors(tree).selectors)]

\* lines 126-131: a selector header
SelectorHeader(loc, g1) ==
    [loc EXCEPT !.cur_rule_tree = Append(@, SelectorGroup(g1)),
                !.selectorsChanged = TRUE]

\* lines 124-168: the statement of a stripped line, after the pop to the new level
Statement(loc, cbs, s) ==
    IF r_selector(s).ok
    THEN SelectorHeader(loc, r_selector(s).g1)
    ELSE IF r_property_prefix(s).ok
    THEN [loc EXCEPT !.rule_prefixes = Append(@, r_property_prefix(s).g1)]
    ELSE IF r_definition(s).ok
    THEN Definition(loc, cbs, r_definition(s))
    ELSE [loc EXCEPT !.raised = ParserError(loc.lineno, "Unexpected item", 168)]

\* lines 84-168: one iteration of the loop, on the raw line the stream yields
LoopBody(loc, cbs, raw) ==
    LET n == [loc EXCEPT !.lineno = @ + 1]
        norm == Normalize(raw, loc.comment)
        ind == r_indentation(norm.line)
        unit == Indenter(loc.indenter, ind)
        newlevel == NewLevel(unit, ind)
        c == [n EXCEPT !.comment = norm.comment]
    IN IF norm.skip THEN c
       ELSE IF unit > 0 /\ Len(ind) % unit # 0
       THEN [c EXCEPT !.indenter = unit,
                      !.raised = ParserError(n.lineno, "Indentation error", 107)]
       ELSE IF LevelJump(newlevel, loc.level)
       THEN [c EXCEPT !.indenter = unit,
                      !.raised = ParserError(n.lineno, "Indentation error", 115)]
       ELSE Statement(
              [c EXCEPT
                 !.indenter = unit,
                 !.rule_prefixes = PopPrefixes(loc.cur_rule_tree, loc.rule_prefixes, newlevel),
                 !.cur_rule_tree = PopTree(loc.cur_rule_tree, newlevel),
                 !.level = newlevel],
              cbs, Strip(norm.line))

\* the statement kinds read so far, after the raw line
Seen(raw) ==
    LET norm == Normalize(raw, comment)
    IN IF norm.skip THEN seen ELSE seen \cup {Kind(Strip(norm.line))}

\* no stack entry is open
NoneOpened == [tree |-> <<>>, prefixes |-> <<>>]

\* the levels at which the entries of the two stacks were opened, after the
\* raw line left the locals loc: the levels of the entries that lines 118-121
\* kept, and the level of the line for the entry a header appended
Opened(raw, loc) ==
    LET norm == Normalize(raw, comment)
        kind == Kind(Strip(norm.line))
        Kept(levels, n) == SubSeq(levels, 1, n)
    IN IF norm.skip THEN openedAt
       ELSE [tree |-> IF kind = "selector"
                      THEN Append(Kept(openedAt.tree, Len(loc.cur_rule_tree) - 1), loc.level)
                      ELSE Kept(openedAt.tree, Len(loc.cur_rule_tree)),
             prefixes |-> IF kind = "prefix"
                          THEN Append(Kept(openedAt.prefixes, Len(loc.rule_prefixes) - 1),
                                      loc.level)
                          ELSE Kept(openedAt.prefixes, Len(loc.rule_prefixes))]

SetLocals(loc) ==
    /\ lineno' = loc.lineno
    /\ level' = loc.level
    /\ indenter' = loc.indenter
    /\ selectorsChanged' = loc.selectorsChanged
    /\ rules' = loc.rules
    /\ comment' = loc.comment
    /\ cur_rule_tree' = loc.cur_rule_tree
    /\ rule_prefixes' = loc.rule_prefixes
    /\ new_selectors' = loc.new_selectors


---------------------------------------------------------------------------
(* Parser.toCss, the rendering loop (lines 170-187).                       *)

s_open == <<" ", "{", "\n">>
s_close == <<"}", "\n">>

\* lines 174-178: the chunks of a media-pair rule; mq is media_query
RenderPair(mq, rule) ==
    LET rendered_defns == Join(<<"\n", "\t", "\t">>, rule.definitions)
        header == IF <<rule.selectors.media>> # mq
                  THEN <<rule.selectors.media \o s_open>>
                  ELSE <<>>
    IN header \o << <<"\t">> \o rule.selectors.text \o <<" ", "{", "\n", "\t", "\t">>
                    \o rendered_defns \o <<"\n", "\t", "}", "\n">> >>

\* lines 180-184: the chunks of a plain rule
RenderPlain(mq, rule) ==
    LET rendered_defns == Join(<<"\n", "\t">>, rule.definitions)
        closing == IF mq # <<>> THEN <<s_close>> ELSE <<>>
    IN closing \o << rule.selectors.text \o <<" ", "{", "\n", "\t">>
                     \o rendered_defns \o <<"\n", "}", "\n">> >>

\* a faulty variant of NextMediaQuery: the open media query is not remembered
NextMediaQueryForget(mq, rule) == <<>>

\* lines 175-176 and 180-182: media_query after a rule
NextMediaQuery(mq, rule) ==
    IF rule.selectors.tuple THEN <<rule.selectors.media>> ELSE <<>>

\* lines 185-186: the chunks at the end of the rules
RenderEnd(mq) ==
    IF mq # <<>> THEN <<s_close>> ELSE <<>>

---------------------------------------------------------------------------
(* The input lines of the model: an indentation of spaces and a content.   *)

c_a == <<"a", ":">>
c_bc == <<"&", "b", ",", " ", "c", ":">>
c_media == s_media \o <<" ", "m", ":">>
c_f == <<"f", "-", ">">>
c_p == <<"p", ":", " ", "1">>
c_comment == <<"/", "/", "c">>
c_list == s_media \o <<" ", "m", ",", " ", "n", ":">>
c_open == <<"/", "*", "c">>
c_close == <<"c", "*", "/">>

\* the statements: selector headers, a prefix header, a property definition
Statements == {c_a, c_bc, c_media, c_f, c_p}

\* the leading spaces of a statement line: units of 1, 2 and 3 spaces, levels 0
\* to 3, and lengths that are no multiple of the unit
Indents == {0, 1, 2, 3}

Spaces(n) == [i \in 1..n |-> " "]

\* a comment line, indented
CommentLines == {Spaces(2) \o c_comment}

Lines == {Spaces(n) \o c : n \in Indents, c \in Statements} \cup CommentLines

\* a line that opens a block comment and a line that closes one (an unexpected
\* item outside of a block comment)
BlockCommentLines == {c_open, c_close}

\* a media header with a comma in its query list, at the outermost level
MediaLists == {c_list}

\* the lines of the conversions without callbacks
SourceLines == Lines \cup MediaLists \cup BlockCommentLines

---------------------------------------------------------------------------
(* The operations.                                                         *)

RenderVarsUnset ==
    /\ output = <<>>
    /\ media_query = <<>>
    /\ ri = 0
    /\ result = <<>>

\* Parser.__init__ (lines 51-53); the locals of toCss have their initial values
Init ==
    /\ callbacks = <<>>
    /\ pos = 0
    /\ line = <<>>
    /\ pc = "idle"
    /\ lineno = 0
    /\ level = 0
    /\ indenter = 0
    /\ selectorsChanged = FALSE
    /\ rules = <<>>
    /\ comment = FALSE
    /\ cur_rule_tree = <<>>
    /\ rule_prefixes = <<>>
    /\ new_selectors = <<>>
    /\ RenderVarsUnset
    /\ err = NoError
    /\ seen = {}
    /\ openedAt = NoneOpened
    /\ sourcestream = <<>>
    /\ calls = 0

\* Parser.registerPropertyCallback (lines 189-206)
registerPropertyCallback(cb) ==
    /\ pc = "idle"
    /\ Len(callbacks) < MaxCallbacks
    /\ callbacks' = Append(callbacks, cb)
    /\ UNCHANGED <<pos, line, pc, lineno, level, indenter, selectorsChanged, rules, comment,
                   cur_rule_tree, rule_prefixes, new_selectors, output, media_query,
                   ri, result, err, seen, openedAt, sourcestream, calls>>

\* toCss is called (lines 73-82)
toCss ==
    /\ pc = "idle"
    /\ pc' = "parse"
    /\ SetLocals(InitialLocals)
    /\ openedAt' = NoneOpened
    /\ calls' = calls + 1
    /\ UNCHANGED <<callbacks, pos, line, output, media_query, ri, result, err, seen,
                   sourcestream>>

\* one iteration of the loop of line 83 on the line the stream yields; an
\* exception discards the locals
Iteration(raw) ==
    /\ pc = "parse"
    /\ pos < MaxLines
    /\ pos' = pos + 1
    /\ line' = raw
    /\ seen' = Seen(raw)
    /\ \E loc \in {LoopBody(Locals, callbacks, raw)} :
          IF loc.raised.type # "none"
          THEN /\ pc' = "error"
               /\ err' = loc.raised
               /\ SetLocals(InitialLocals)
          ELSE /\ pc' = "parse"
               /\ err' = err
               /\ SetLocals(loc)
    /\ UNCHANGED <<callbacks, output, media_query, ri, result, sourcestream, calls>>

\* the iteration, the history of the stack entries not kept
ReadLine(raw) ==
    /\ Iteration(raw)
    /\ UNCHANGED openedAt

\* the iteration, with the history of the levels at which the entries of the
\* two stacks were opened
ReadLineScoped(raw) ==
    /\ Iteration(raw)
    /\ \E loc \in {LoopBody(Locals, callbacks, raw)} :
          openedAt' = IF loc.raised.type # "none" THEN NoneOpened ELSE Opened(raw, loc)

\* a faulty variant of EndOfInput: the rules read before an error are rendered
EndOfInputAfterError ==
    /\ pc \in {"parse", "error"}
    /\ pc' = "render"
    /\ output' = <<>>
    /\ media_query' = <<>>
    /\ ri' = 1
    /\ UNCHANGED <<callbacks, pos, line, lineno, level, indenter, selectorsChanged, rules,
                   comment, cur_rule_tree, rule_prefixes, new_selectors, result, err,
                   seen, openedAt, sourcestream, calls>>

\* the stream is exhausted: lines 170-171
EndOfInput ==
    /\ pc = "parse"
    /\ pc' = "render"
    /\ output' = <<>>
    /\ media_query' = <<>>
    /\ ri' = 1
    /\ UNCHANGED <<callbacks, pos, line, lineno, level, indenter, selectorsChanged, rules,
                   comment, cur_rule_tree, rule_prefixes, new_selectors, result, err,
                   seen, openedAt, sourcestream, calls>>

\* one iteration of the loop of line 172
RenderRule ==
    /\ pc = "render"
    /\ ri <= Len(rules)
    /\ output' = output \o (IF rules[ri].selectors.tuple
                            THEN RenderPair(media_query, rules[ri])
                            ELSE RenderPlain(media_query, rules[ri]))
    /\ media_query' = NextMediaQuery(media_query, rules[ri])
    /\ ri' = ri + 1
    /\ UNCHANGED <<callbacks, pos, line, pc, lineno, level, indenter, selectorsChanged, rules,
                   comment, cur_rule_tree, rule_prefixes, new_selectors, result, err,
                   seen, openedAt, sourcestream, calls>>

\* lines 185-187: the end of the rules, and the return
Return ==
    /\ pc = "render"
    /\ ri > Len(rules)
    /\ output' = output \o RenderEnd(media_query)
    /\ result' = <<Concat(output')>>
    /\ pc' = "done"
    /\ UNCHANGED <<callbacks, pos, line, lineno, level, indenter, selectorsChanged, rules,
                   comment, cur_rule_tree, rule_prefixes, new_selectors, media_query,
                   ri, err, seen, openedAt, sourcestream, calls>>

Next ==
    \/ \E cb \in Callbacks : registerPropertyCallback(cb)
    \/ toCss
    \/ \E raw \in Lines : ReadLine(raw)
    \/ EndOfInput
    \/ RenderRule
    \/ Return

Spec == Init /\ [][Next]_vars

---------------------------------------------------------------------------
(* Conversions without callbacks, of lines with block comments and media   *)
(* query lists too, the levels of the open headers recorded.               *)

NextSource ==
    \/ toCss
    \/ \E raw \in SourceLines : ReadLineScoped(raw)
    \/ EndOfInput
    \/ RenderRule
    \/ Return

SpecSource == Init /\ [][NextSource]_vars

---------------------------------------------------------------------------
(* flattenSelectors alone, on the selector stacks within the bounds.       *)

\* the non-empty sequences over S of length at most n
SeqsUpTo(S, n) == UNION {[1..k -> S] : k \in 1..n}

\* selector texts as line 128 leaves them: stripped, without comma, maybe empty
SelectorTexts == {<<"a">>, <<"&", "b">>, <<>>}

\* the groups of distinct selectors
Groups ==
    {g \in SeqsUpTo(SelectorTexts, MaxGroup) :
        \A i, j \in 1..Len(g) : i # j => g[i] # g[j]}

Stacks == SeqsUpTo(Groups, MaxDepth)

InitFlatten ==
    /\ callbacks = <<>>
    /\ pos = 0
    /\ line = <<>>
    /\ pc = "call"
    /\ lineno = 0
    /\ level = 0
    /\ indenter = 0
    /\ selectorsChanged = TRUE
    /\ rules = <<>>
    /\ comment = FALSE
    /\ cur_rule_tree \in Stacks
    /\ rule_prefixes = <<>>
    /\ new_selectors = <<>>
    /\ RenderVarsUnset
    /\ err = NoError
    /\ seen = {}
    /\ openedAt = NoneOpened
    /\ sourcestream = <<>>
    /\ calls = 1

\* new_selectors = self.flattenSelectors(cur_rule_tree) (line 147)
CallFlatten ==
    /\ pc = "call"
    /\ \E f \in {flattenSelectors(cur_rule_tree)} :
          /\ pc' = IF f.ok THEN "returned" ELSE "error"
          /\ new_selectors' = f.val
          /\ err' = IF f.ok THEN err ELSE EscapedIndexError(f.at)
    /\ UNCHANGED <<callbacks, pos, line, lineno, level, indenter, selectorsChanged,
                   rules, comment, cur_rule_tree, rule_prefixes, output, media_query,
                   ri, result, seen, openedAt, sourcestream, calls>>

NextFlatten == CallFlatten

SpecFlatten == InitFlatten /\ [][NextFlatten]_vars

---------------------------------------------------------------------------
(* The rendering loop alone, on the rule buffers within the bounds.        *)

d_p == <<"p", ":", " ", "1", ";">>
m_m == s_media \o <<" ", "m">>
m_n == s_media \o <<" ", "n">>

PlainRule(text, defs) ==
    [selectors |-> [tuple |-> FALSE, media |-> <<>>, text |-> text],
     definitions |-> defs]

PairRule(media, text, defs) ==
    [selectors |-> [tuple |-> TRUE, media |-> media, text |-> text],
     definitions |-> defs]

\* rules as the parsing loop leaves them in the buffer
BufferRules ==
    {PlainRule(<<"a">>, <<d_p>>),
     PairRule(m_m, <<"a">>, <<d_p>>),
     PairRule(m_m, <<"a", " ", "c">>, <<d_p, d_p>>),
     PairRule(m_n, <<"a">>, <<d_p>>)}

RuleBuffers == {<<>>} \cup SeqsUpTo(BufferRules, MaxRules)

\* the state at line 172, the parsing loop over
InitRender ==
    /\ callbacks = <<>>
    /\ pos = 0
    /\ line = <<>>
    /\ pc = "render"
    /\ lineno = 0
    /\ level = 0
    /\ indenter = 0
    /\ selectorsChanged = FALSE
    /\ rules \in RuleBuffers
    /\ comment = FALSE
    /\ cur_rule_tree = <<>>
    /\ rule_prefixes = <<>>
    /\ new_selectors = <<>>
    /\ output = <<>>
    /\ media_query = <<>>
    /\ ri = 1
    /\ result = <<>>
    /\ err = NoError
    /\ seen = {}
    /\ openedAt = NoneOpened
    /\ sourcestream = <<>>
    /\ calls = 1

NextRender == RenderRule \/ Return

SpecRender == InitRender /\ [][NextRender]_vars

---------------------------------------------------------------------------
(* Conversions one after another, of streams whose lines are given         *)
(* beforehand.                                                             *)

\* the lines of the streams: a selector header, a definition indented by one
\* or by two spaces, and a line that opens a block comment
AgainLines == {c_a, Spaces(1) \o c_p, Spaces(2) \o c_p, c_open}

Streams == {<<>>} \cup SeqsUpTo(AgainLines, MaxStream)

\* the callback of test_02_callback
AgainCallbacks == {"variant"}

\* Parser(sourcestream) (lines 51-53)
InitAgain ==
    /\ callbacks = <<>>
    /\ pos = 0
    /\ line = <<>>
    /\ pc = "idle"
    /\ lineno = 0
    /\ level = 0
    /\ indenter = 0
    /\ selectorsChanged = FALSE
    /\ rules = <<>>
    /\ comment = FALSE
    /\ cur_rule_tree = <<>>
    /\ rule_prefixes = <<>>
    /\ new_selectors = <<>>
    /\ RenderVarsUnset
    /\ err = NoError
    /\ seen = {}
    /\ openedAt = NoneOpened
    /\ sourcestream \in Streams
    /\ calls = 0

\* one iteration of the loop of line 83, on the next line of the stream
ReadStream ==
    /\ pos < Len(sourcestream)
    /\ ReadLine(sourcestream[pos + 1])

\* the stream has no further line: lines 170-171
EndOfStream ==
    /\ pos = Len(sourcestream)
    /\ EndOfInput

\* a further call of toCss (lines 73-82), after a call that returned or
\* raised: on a Parser with the same callbacks, its stream at its first line
toCssAgain ==
    /\ pc \in {"done", "error"}
    /\ calls < MaxCalls
    /\ \E s \in Streams : sourcestream' = s
    /\ pos' = 0
    /\ pc' = "parse"
    /\ SetLocals(InitialLocals)
    /\ calls' = calls + 1
    /\ result' = <<>>
    /\ err' = NoError
    /\ seen' = {}
    /\ UNCHANGED <<callbacks, line, output, media_query, ri, openedAt>>

NextAgain ==
    \/ \E cb \in AgainCallbacks : registerPropertyCallback(cb)
    \/ toCss
    \/ ReadStream
    \/ EndOfStream
    \/ RenderRule
    \/ Return
    \/ toCssAgain

SpecAgain == InitAgain /\ [][NextAgain]_vars

---------------------------------------------------------------------------

(* What a step of the parsing loop did, read off the two states.           *)

\* the stripped text of a raw line read in the current state, <<>> when skipped
TextOf(raw) ==
    LET norm == Normalize(raw, comment)
    IN IF norm.skip THEN <<>> ELSE Strip(norm.line)

\* the step is an iteration of the parsing loop (on the line line')
LineStep == pc = "parse" /\ pos' = pos + 1

\* the step processes a property definition line without raising
DefinitionStep ==
    /\ LineStep
    /\ pc' = "parse"
    /\ \E t \in {TextOf(line')} : Kind(t) = "definition"

\* the declarations the step appended to the last rule
NewDeclarations ==
    LET defs == rules'[Len(rules')].definitions
        before == IF Len(rules') > Len(rules) THEN 0
                  ELSE Len(rules[Len(rules)].definitions)
    IN SubSeq(defs, before + 1, Len(defs))

\* every prefix entry followed by a dash, outermost first
RECURSIVE DashPrefix(_)
DashPrefix(stack) ==
    IF stack = <<>> THEN <<>>
    ELSE Head(stack) \o <<"-">> \o DashPrefix(Tail(stack))

\* the pairs rendered as declarations under the prefix stack
Rendered(stack, pairs) ==
    [i \in 1..Len(pairs) |->
        DashPrefix(stack) \o pairs[i][1] \o <<":", " ">> \o pairs[i][2] \o <<";">>]

\* C4: every declaration appended by a property definition is
\* "prefixedName: value;", the name preceded by the active prefix entries,
\* outermost first, each followed by a dash (the bare name under no prefix).
C4_PrefixedDeclarations ==
    [][DefinitionStep =>
         \A m \in {r_definition(TextOf(line'))} :
            NewDeclarations =
              Rendered(rule_prefixes', ApplyCallbacks(callbacks, m.g1, m.g2))]_vars

s_f_f_p == <<"f", "-", "f", "-", "p", ":", " ", "1", ";">>

\* a definition under two nested prefix headers was rendered
C4_Witness ==
    /\ callbacks = <<>>
    /\ rule_prefixes = <<<<"f">>, <<"f">>>>
    /\ rules # <<>>
    /\ rules[Len(rules)].definitions = <<s_f_f_p>>

\* the declarations a successful definition step must append, given the pairs
AppendsRendered(pairs) == NewDeclarations = Rendered(rule_prefixes', pairs)

---------------------------------------------------------------------------
(* Claims about the parsing loop (specification Spec).                     *)

\* C1 (the claim as stated): the declarations of a property definition go to
\* a rule whose selectors are the flattening of the selector-group stack
\* active at that line, also after a dedent has popped selector groups.
C1_RuleOfActiveScope ==
    [][(DefinitionStep /\ NewDeclarations # <<>>) =>
         rules'[Len(rules')].selectors = RuleSelectors(cur_rule_tree').selectors]_vars

\* only selector headers, prefix headers, comments and blank lines were read
HeadersOnly == seen \subseteq {"selector", "prefix"}

\* C2 (the claim as stated): an input of only selector headers, prefix
\* headers, comments and blank lines adds no rule, and toCss returns the
\* empty string for it.
C2_HeadersReturnEmpty ==
    HeadersOnly =>
        /\ rules = <<>>
        /\ pc \in {"done", "error"} => (pc = "done" /\ result = << <<>> >>)

\* C2 (amended): such an input adds no rule (a rule is added only by a
\* property definition); toCss returns the empty string for it unless its
\* indentation is rejected with an indentation error.
C2_HeadersAddNoRule ==
    /\ rules # <<>> => "definition" \in seen
    /\ HeadersOnly =>
          /\ rules = <<>>
          /\ pc = "done" => result = << <<>> >>
          /\ pc = "error" => (err.type = "ParserError" /\ err.message = "Indentation error")

\* a selector header and a prefix header were read, and toCss returned
C2_Witness ==
    /\ seen = {"selector", "prefix"}
    /\ pc = "done"
    /\ result = << <<>> >>

\* C5: with no callback registered a definition contributes its raw pair; with
\* one callback registered it contributes exactly the pairs callback(name,
\* value) returns, in that order, each under the active prefix.
C5_SingleCallback ==
    [][(DefinitionStep /\ Len(callbacks) <= 1) =>
         \A m \in {r_definition(TextOf(line'))} :
            AppendsRendered(IF callbacks = <<>> THEN << <<m.g1, m.g2>> >>
                            ELSE Call(callbacks[1], m.g1, m.g2))]_vars

s_p_top == <<"p", "-", "t", "o", "p", ":", " ", "1", ";">>
s_p_bottom == <<"p", "-", "b", "o", "t", "t", "o", "m", ":", " ", "1", ";">>
s_p_variant == <<"p", "-", "v", "a", "r", "i", "a", "n", "t", ":", " ", "1", ";">>

\* one callback that returns two pairs replaced the raw pair of a definition
C5_Witness ==
    /\ callbacks = <<"sides">>
    /\ pc = "parse"
    /\ Len(rules) = 1
    /\ rules[1].definitions = <<s_p_top, s_p_bottom>>

\* the pairs of callbacks chained: each consumes the pairs of the one before
RECURSIVE Chained(_, _)
Chained(cbs, pairs) ==
    IF cbs = <<>> THEN pairs
    ELSE LET f == cbs[Len(cbs)]
             before == Chained(SubSeq(cbs, 1, Len(cbs) - 1), pairs)
         IN Concat([i \in 1..Len(before) |-> Call(f, before[i][1], before[i][2])])

\* the pairs of callbacks each applied to the raw pair, in registration order
RECURSIVE Independent(_, _, _)
Independent(cbs, prop, value) ==
    IF cbs = <<>> THEN <<>>
    ELSE Independent(SubSeq(cbs, 1, Len(cbs) - 1), prop, value)
            \o Call(cbs[Len(cbs)], prop, value)

\* C6 (the claim as stated): several callbacks are chained, each consuming
\* the pairs the previous one produced.
C6_CallbacksChained ==
    [][(DefinitionStep /\ Len(callbacks) >= 2) =>
         \A m \in {r_definition(TextOf(line'))} :
            AppendsRendered(Chained(callbacks, << <<m.g1, m.g2>> >>))]_vars

\* C6 (amended): several callbacks run in registration order, each on the raw
\* pair of the definition; the declarations are f(n, v) followed by g(n, v).
C6_CallbacksIndependent ==
    [][(DefinitionStep /\ Len(callbacks) >= 2) =>
         \A m \in {r_definition(TextOf(line'))} :
            AppendsRendered(Independent(callbacks, m.g1, m.g2))]_vars

\* two callbacks ran on one definition
C6_Witness ==
    /\ callbacks = <<"variant", "sides">>
    /\ pc = "parse"
    /\ Len(rules) = 1
    /\ rules[1].definitions = <<s_p_variant, s_p_top, s_p_bottom>>

\* the step raises the indentation error at the physical number of its line
IndentationErrorRaised ==
    /\ pc' = "error"
    /\ err'.type = "ParserError"
    /\ err'.message = "Indentation error"
    /\ err'.lineno = pos'

\* C9: the first non-blank line with leading whitespace fixes the indentation
\* unit, which never changes afterwards; a later non-blank line whose leading
\* whitespace is no multiple of it raises the indentation error with the
\* physical number of that line.
C9_IndentationUnit ==
    [][LineStep =>
         \A n \in {Normalize(line', comment)} :
            IF n.skip THEN indenter' = indenter
            ELSE \A w \in {Len(r_indentation(n.line))} :
                   /\ (pc' = "parse" /\ indenter = 0) => indenter' = w
                   /\ (pc' = "parse" /\ indenter # 0) => indenter' = indenter
                   /\ (indenter # 0 /\ w % indenter # 0) => IndentationErrorRaised]_vars

\* a line that is no multiple of the unit was rejected, after other lines
C9_Witness ==
    /\ pc = "error"
    /\ err.at = 107
    /\ err.message = "Indentation error"
    /\ err.lineno = pos
    /\ pos > 2
    /\ line = Spaces(1) \o c_a

\* the nesting level of a line indented by w under the unit in force
LevelOf(w) ==
    LET unit == IF indenter = 0 THEN w ELSE indenter
    IN IF unit = 0 THEN 0 ELSE w \div unit

\* C10: a non-blank line more than one level deeper than the previous
\* processed line raises the indentation error at its line number, a line at
\* most one level deeper never does, and a processed line's level becomes the
\* previous level of the next.
C10_LevelJump ==
    [][LineStep =>
         \A n \in {Normalize(line', comment)} :
            IF n.skip THEN level' = level
            ELSE \A w \in {Len(r_indentation(n.line))} :
                   /\ LevelOf(w) > level + 1 => IndentationErrorRaised
                   /\ (LevelOf(w) <= level + 1 /\ (indenter = 0 \/ w % indenter = 0))
                        => ~(pc' = "error" /\ err'.message = "Indentation error")
                   /\ pc' = "parse" => level' = LevelOf(w)]_vars

\* a line two levels deeper than the line before it was rejected
C10_Witness ==
    /\ pc = "error"
    /\ err.at = 115
    /\ err.message = "Indentation error"
    /\ err.lineno = pos

---------------------------------------------------------------------------
(* Claims about flattenSelectors (specification SpecFlatten).              *)

\* |G1| * ... * |Gk|
RECURSIVE Product(_)
Product(tree) ==
    IF tree = <<>> THEN 1 ELSE Len(Head(tree)) * Product(Tail(tree))

\* parent and suffix combined: "&" removed and no space, else one space
Combined(parent, suffix) ==
    IF suffix # <<>> /\ suffix[1] = "&"
    THEN parent \o SubSeq(suffix, 2, Len(suffix))
    ELSE parent \o <<" ">> \o suffix

\* the k-th selector (k from 0) of the stack, the outer groups varying slowest
RECURSIVE SelectorAt(_, _)
SelectorAt(tree, k) ==
    LET inner == Product(Tail(tree))
        head == tree[1][(k \div inner) + 1]
    IN IF Len(tree) = 1 THEN head
       ELSE Combined(head, SelectorAt(Tail(tree), k % inner))

\* C3 (the claim as stated): flattenSelectors returns |G1|*...*|Gk| selectors,
\* head selectors in the outer loop and suffixes in the inner, each a parent
\* combined with a suffix: "&" removed and no space, or else exactly one space.
C3_FlattenProduct ==
    pc \in {"returned", "error"} =>
        /\ pc = "returned"
        /\ Len(new_selectors) = Product(cur_rule_tree)
        /\ \A k \in 1..Len(new_selectors) :
              new_selectors[k] = SelectorAt(cur_rule_tree, k - 1)

---------------------------------------------------------------------------
(* Claims about the rendering loop (specification SpecRender).             *)

\* every "{" of the text is closed, no "}" closes nothing, and every "@" (a
\* media header) is outside of all blocks
RECURSIVE WellNested(_, _, _)
WellNested(text, i, depth) ==
    IF i > Len(text) THEN depth = 0
    ELSE IF text[i] = "{" THEN WellNested(text, i + 1, depth + 1)
    ELSE IF text[i] = "}" THEN depth > 0 /\ WellNested(text, i + 1, depth - 1)
    ELSE IF text[i] = "@" THEN depth = 0 /\ WellNested(text, i + 1, depth)
    ELSE WellNested(text, i + 1, depth)

\* the chunks of the output that open a media block, and those that close one
MediaHeaders == {i \in 1..Len(output) : StartsWith(output[i], s_media)}
BlockClosers == {i \in 1..Len(output) : output[i] = s_close}

\* C7 (the claim as stated): every media block that is opened is closed
\* exactly once: as many closing "}" lines as media header lines are emitted,
\* and no media block is nested inside another.
C7_MediaBlocksClosed ==
    pc = "done" =>
        /\ Cardinality(MediaHeaders) = Cardinality(BlockClosers)
        /\ WellNested(result[1], 1, 0)

\* rule i is a media pair with the header of the media pair before it
SameBlock(i) ==
    /\ i > 1
    /\ rules[i].selectors.tuple
    /\ rules[i - 1].selectors.tuple
    /\ rules[i].selectors.media = rules[i - 1].selectors.media

\* C8: consecutive media-pair rules with the same header are rendered in one
\* block: the header is emitted once, at the first of them, and neither a
\* closing "}" nor a header is emitted between them.
C8_SameHeaderOneBlock ==
    [][(pc = "render" /\ ri <= Len(rules) /\ rules[ri].selectors.tuple) =>
         LET new == SubSeq(output', Len(output) + 1, Len(output'))
         IN IF SameBlock(ri)
            THEN Len(new) = 1 /\ new[1][1] = "\t"
            ELSE /\ Len(new) = 2
                 /\ new[1] = rules[ri].selectors.media \o s_open
                 /\ new[2][1] = "\t"]_vars

\* two media-pair rules with the same header were rendered in one block
C8_Witness ==
    /\ pc = "done"
    /\ Len(rules) = 2
    /\ SameBlock(2)
    /\ Len(output) = 4
    /\ Cardinality(MediaHeaders) = 1

---------------------------------------------------------------------------
(* Claims about the errors of the parsing loop (specification Spec).       *)

\* the selector-group stack of the state, cut down to the level l of a line
StackAt(l) == SubSeq(cur_rule_tree, 1, Min({Len(cur_rule_tree), l}))

s_missing == "Selector expected, found definition"

\* the step raises the missing-selector error at the number of its line
MissingSelectorRaised ==
    /\ pc' = "error"
    /\ err'.type = "ParserError"
    /\ err'.message = s_missing
    /\ err'.lineno = pos'

\* C11: a property definition processed while the selector-group stack is
\* empty (no header yet, all groups popped by the dedent, or only prefix
\* headers open) raises the missing-selector error with the number of its
\* line; the error is raised by no other line, so never by a definition
\* processed under a non-empty stack.
C11_MissingSelector ==
    [][LineStep =>
         \A n \in {Normalize(line', comment)} :
            IF n.skip THEN ~(pc' = "error")
            ELSE \A w \in {Len(r_indentation(n.line))} :
                   \A orphan \in {/\ indenter = 0 \/ w % indenter = 0
                                  /\ LevelOf(w) <= level + 1
                                  /\ Kind(Strip(n.line)) = "definition"
                                  /\ StackAt(LevelOf(w)) = <<>>} :
                      /\ orphan => MissingSelectorRaised
                      /\ (pc' = "error" /\ err'.message = s_missing) => orphan]_vars

\* a definition was rejected after a dedent had popped every selector group
C11_Witness ==
    /\ pc = "error"
    /\ err.at = 141
    /\ err.message = s_missing
    /\ err.lineno = pos
    /\ pos > 2
    /\ "selector" \in seen
    /\ line = c_p

\* C12 (the claim as stated): a conversion that fails, fails with one of the
\* three parse errors, which carries the number of the offending line.
C12_OnlyParseErrors ==
    pc = "error" =>
        /\ err.type = "ParserError"
        /\ err.message \in {"Indentation error", s_missing, "Unexpected item"}
        /\ err.lineno = pos

---------------------------------------------------------------------------
(* Flattening and nesting (specification SpecFlatten).                     *)

\* no selector of the group starts with "&"
NoAmpersand(group) == \A j \in 1..Len(group) : ~StartsWith(group[j], <<"&">>)

\* C14: for a stack [A, B, C], when flattenSelectors([B, C]) returns a group S
\* of which no selector starts with "&", flattenSelectors([A, B, C]) has the
\* outcome of flattenSelectors([A, S]): the same selectors in the same order
\* (or, for an empty selector in S, the same IndexError).
C14_FlattenAssociative ==
    (pc \in {"returned", "error"} /\ Len(cur_rule_tree) = 3) =>
        \A s \in {flattenSelectors(Tail(cur_rule_tree))} :
            (s.ok /\ NoAmpersand(s.val)) =>
                \A r \in {flattenSelectors(<<cur_rule_tree[1], s.val>>)} :
                    /\ (pc = "returned") = r.ok
                    /\ new_selectors = r.val
                    /\ ~r.ok => err.at = r.at

\* a stack of three groups was flattened to four selectors, the two inner
\* groups giving a synthetic group of two selectors without "&"
C14_Witness ==
    /\ pc = "returned"
    /\ Len(cur_rule_tree) = 3
    /\ Len(cur_rule_tree[1]) = 2
    /\ Len(cur_rule_tree[3]) = 2
    /\ NoAmpersand(flattenSelectors(Tail(cur_rule_tree)).val)
    /\ Len(new_selectors) = 4

---------------------------------------------------------------------------
(* Claims about errors, skipped lines and the stacks (specification Spec). *)

\* C17: an error is fatal: the step that raises it leaves no output text, and
\* after it the conversion reads no further line, renders nothing and
\* returns nothing.
C17_FailFast ==
    [][/\ pc' = "error" => (result' = <<>> /\ output' = <<>>)
       /\ pc = "error" => (pc' = "error" /\ pos' = pos)]_vars

\* a line raised an error after a definition had filled a rule, with lines
\* of the input left unread
C17_Witness ==
    /\ pc = "error"
    /\ "definition" \in seen
    /\ err.lineno = pos
    /\ pos = 3
    /\ pos < MaxLines
    /\ result = <<>>

\* the line read lies wholly inside a block comment
InsideBlockComment == comment /\ ~Contains(line', multi_comment_end)

\* C18: a line wholly inside a block comment, or blank once its comments are
\* stripped, emits no statement and leaves the indentation unit, the level,
\* the two stacks, selectorsChanged and the rules unchanged; it advances the
\* line counter, and the comment flag stays set while no line contains "*/".
C18_SkippedLineFrame ==
    [][LineStep =>
         \A n \in {Normalize(line', comment)} :
            /\ InsideBlockComment => n.skip
            /\ n.skip =>
                  /\ pc' = "parse"
                  /\ lineno' = lineno + 1
                  /\ seen' = seen
                  /\ UNCHANGED <<indenter, level, cur_rule_tree, rule_prefixes,
                                 selectorsChanged, rules>>
                  /\ InsideBlockComment => comment'
                  /\ comment' => (InsideBlockComment
                                    \/ Contains(line', multi_comment_start))]_vars

\* a selector header inside a block comment was skipped, under an open rule
C18_Witness ==
    /\ pc = "parse"
    /\ comment
    /\ line = Spaces(1) \o c_a
    /\ pos = 4
    /\ lineno = 4
    /\ Len(rules) = 1
    /\ level = 1

\* C19: after the pop of a processed line the selector groups and the prefix
\* entries are together at most the line's level, so once the line is
\* processed (a header pushes one entry) they are at most level + 1.
C19_StackDepthBound ==
    [][(LineStep /\ pc' = "parse") =>
         \A t \in {TextOf(line')} :
            t # <<>> =>
               \A pushed \in {IF Kind(t) \in {"selector", "prefix"} THEN 1 ELSE 0} :
                  /\ Len(cur_rule_tree') + Len(rule_prefixes') - pushed <= level'
                  /\ Len(cur_rule_tree') + Len(rule_prefixes') <= level' + 1]_vars

\* the stacks hold level + 1 entries, prefixes and selector groups, after a
\* header two levels deep
C19_Witness ==
    /\ pc = "parse"
    /\ level = 2
    /\ Len(cur_rule_tree) = 2
    /\ Len(rule_prefixes) = 1

\* a chunk of the output that renders a rule: neither a closing brace nor a
\* media header (the chunk that ends with its opening brace)
IsRuleChunk(c) ==
    c # s_close /\ SubSeq(c, Len(c) - 1, Len(c)) # <<"{", "\n">>

\* a line of a rule chunk that is a selector line or a declaration
IsRuleLine(l) == Strip(l) \notin {<<>>, <<"}">>}

\* the selector lines and the declarations of a rule chunk, tabs stripped
RuleLines(c) ==
    LET Stripped(ls) == [i \in 1..Len(ls) |-> Strip(ls[i])]
    IN CHOOSE r \in {Stripped(SelectSeq(ls, IsRuleLine)) : ls \in {Split(c, "\n")}} : TRUE

\* the selector lines and the declarations of a rule of the buffer
ExpectedRuleLines(rule) ==
    Split(rule.selectors.text \o <<" ", "{">>, "\n") \o rule.definitions

\* the step returns a text that holds one chunk for every rule, in the order
\* of the buffer, each with the selectors of its rule and with its
\* declarations in their order, none dropped and none duplicated
ReturnsInOrder ==
    (pc = "render" /\ pc' = "done" /\ callbacks = <<>>) =>
        \A out \in {output'} :
            \A cs \in {SelectSeq(out, IsRuleChunk)} :
                /\ result' = <<Concat(out)>>
                /\ Len(cs) = Len(rules)
                /\ \A i \in 1..Len(cs) : RuleLines(cs[i]) = ExpectedRuleLines(rules[i])

\* C20: with no callback registered every property definition that is
\* processed appends exactly one declaration, at the end of the last rule,
\* and changes no other rule or declaration; there is a rule to append to;
\* the returned text holds the rules in the order they were opened and their
\* declarations in source-line order.
C20_Conservation ==
    [][/\ (DefinitionStep /\ callbacks = <<>>) =>
            /\ rules' # <<>>
            /\ Len(NewDeclarations) = 1
            /\ \/ /\ Len(rules') = Len(rules) + 1
                  /\ SubSeq(rules', 1, Len(rules)) = rules
               \/ /\ Len(rules') = Len(rules)
                  /\ rules # <<>>
                  /\ rules' = [rules EXCEPT ![Len(rules)].definitions =
                                                @ \o NewDeclarations]
       /\ (LineStep /\ ~DefinitionStep /\ pc' = "parse") => rules' = rules
       /\ (pc' = "parse" /\ cur_rule_tree' # <<>> /\ ~selectorsChanged') => rules' # <<>>
       /\ ReturnsInOrder]_vars

\* two definitions under different prefixes were rendered in one rule
C20_Witness ==
    /\ pc = "done"
    /\ callbacks = <<>>
    /\ Len(rules) = 1
    /\ Len(rules[1].definitions) = 2
    /\ rules[1].definitions[1] # rules[1].definitions[2]
    /\ Len(output) = 1
    /\ Len(RuleLines(output[1])) = 3

\* the step processes a property definition that opens a rule
OpensRule == DefinitionStep /\ Len(rules') = Len(rules) + 1

\* C16 (the claim as stated): under an outermost selector group whose text
\* starts with "@media" the rule a definition opens is a pair of the whole
\* text of that group (all of its comma-separated parts) and of the
\* flattening of the inner groups alone; under any other outermost group it
\* is the one string that flattens the whole stack.
C16_MediaPair ==
    [][OpensRule =>
         \A tree \in {cur_rule_tree'} :
            \A sel \in {rules'[Len(rules')].selectors} :
               IF StartsWith(tree[1][1], s_media)
               THEN /\ sel.tuple
                    /\ \A j \in 1..Len(tree[1]) : Contains(sel.media, tree[1][j])
                    /\ sel.text = Join(<<",", "\n">>, flattenSelectors(Tail(tree)).val)
               ELSE /\ ~sel.tuple
                    /\ sel.text = Join(<<",", "\n">>, flattenSelectors(tree).val)]_vars

---------------------------------------------------------------------------
(* Claims about the scopes (specification SpecSource).                     *)

\* of the entries of a stack, opened at the given levels, the pop to level l
\* kept the first n: the entries it kept are those opened below l (the
\* ancestors of the line), the entries it removed those opened at l or deeper
KeptAncestors(levels, n, l) ==
    /\ \A i \in 1..n : levels[i] < l
    /\ \A i \in (n + 1)..Len(levels) : levels[i] >= l

\* C15 (the claim as stated): after the pop at a processed line of level L
\* the selector-group stack and the prefix stack hold exactly the headers
\* that are ancestors of the line: no entry opened at level L or deeper
\* survives, and no entry opened below L is removed.
C15_PopToAncestors ==
    [][(LineStep /\ pc' = "parse") =>
         \A t \in {TextOf(line')} :
            t # <<>> =>
               \A kind \in {Kind(t)} :
                  /\ KeptAncestors(openedAt.tree,
                                   Len(cur_rule_tree') - (IF kind = "selector" THEN 1 ELSE 0),
                                   level')
                  /\ KeptAncestors(openedAt.prefixes,
                                   Len(rule_prefixes') - (IF kind = "prefix" THEN 1 ELSE 0),
                                   level')]_vars

---------------------------------------------------------------------------
(* Claims about conversions one after another (specification SpecAgain).   *)

\* the locals of a conversion that nothing ran before
FreshLocals ==
    [lineno |-> 0, level |-> 0, indenter |-> 0, selectorsChanged |-> FALSE,
     rules |-> <<>>, comment |-> FALSE, cur_rule_tree |-> <<>>,
     rule_prefixes |-> <<>>, new_selectors |-> <<>>, raised |-> NoError]

\* the parsing loop over the lines, up to the first error
RECURSIVE ParseFrom(_, _, _)
ParseFrom(loc, cbs, lines) ==
    IF lines = <<>> \/ loc.raised.type # "none" THEN loc
    ELSE ParseFrom(LoopBody(loc, cbs, Head(lines)), cbs, Tail(lines))

\* the rendering loop over the rules
RECURSIVE RenderFrom(_, _)
RenderFrom(mq, rs) ==
    IF rs = <<>> THEN RenderEnd(mq)
    ELSE (IF Head(rs).selectors.tuple THEN RenderPair(mq, Head(rs))
                                      ELSE RenderPlain(mq, Head(rs)))
            \o RenderFrom(NextMediaQuery(mq, Head(rs)), Tail(rs))

\* the outcome of converting the lines with the callbacks, nothing run before
FreshOutcome(lines, cbs) ==
    LET loc == ParseFrom(FreshLocals, cbs, lines)
    IN IF loc.raised.type # "none"
       THEN [result |-> <<>>, err |-> loc.raised]
       ELSE [result |-> <<Concat(RenderFrom(<<>>, loc.rules))>>, err |-> NoError]

\* C13: every toCss call, the first and the later ones, starts from an empty
\* selector stack, an empty prefix stack, an empty rule buffer, no
\* indentation unit, level 0 and a cleared comment flag, and ends with the
\* outcome (the text returned or the error raised) that its lines and the
\* registered callbacks have when nothing ran before.
C13_NoStateAcrossConversions ==
    [][/\ (pc \in {"idle", "done", "error"} /\ pc' = "parse") =>
            /\ cur_rule_tree' = <<>>
            /\ rule_prefixes' = <<>>
            /\ rules' = <<>>
            /\ indenter' = 0
            /\ level' = 0
            /\ ~comment'
       /\ (pc \notin {"done", "error"} /\ pc' \in {"done", "error"}) =>
            \A o \in {FreshOutcome(sourcestream, callbacks)} :
               /\ result' = o.result
               /\ err' = o.err]_vars

\* a second conversion, with a callback registered, returned a text
C13_Witness ==
    /\ calls = 2
    /\ pc = "done"
    /\ callbacks # <<>>
    /\ Len(sourcestream) = 2
    /\ result # << <<>> >>

=============================================================================
